---------------------------- MODULE Spec2Model ----------------------------
(***************************************************************************)
(* State-machine model of the prompt feed client.                          *)
(*                                                                         *)
(* Two variants of the page component exist in the repository:             *)
(*   - src/app/page.tsx      SocialPromptApp: identity, likes, comments;   *)
(*                           create and delete only change local state.    *)
(*   - src/unnamed/part_000  PromptLibrary: no identity; create and delete *)
(*                           call the persistence API (src/app/api/...).   *)
(* Spec is the behaviour of SocialPromptApp, LibSpec that of               *)
(* PromptLibrary.  QueueSpec is SocialPromptApp with nobody signed in and  *)
(* a longer notification queue, QueueLive the same with its timeouts       *)
(* firing, LagSpec SocialPromptApp with loads that are rendered late.      *)
(* All use the same variables: the React state of the component (user,     *)
(* prompts, toasts), the timers and requests the component has             *)
(* outstanding, and the environment it talks to (clock, db).               *)
(*                                                                         *)
(* Each handler is one action, taken at the handler's own boundary: its    *)
(* guard is what the handler's code tests, its arguments range over every  *)
(* id.  What the JSX renders or disables is stated separately              *)
(* (DeleteButtonShown).  An update made in an event handler and the render *)
(* that follows the event are one step; an update made after an await is   *)
(* rendered by a later step (Render), and until then the handlers read the *)
(* prompts of the render before it.                                        *)
(***************************************************************************)
EXTENDS Integers, Sequences, FiniteSets, Bags, TLC

VARIABLES
    user,      \* useState user: NoUser (null) or the signed-in user's id
    prompts,   \* useState prompts: sequence of Prompt records
    toasts,    \* useState toasts: sequence of [id, message, type, shown]
    timers,    \* bag of toast ids whose setTimeout(removeToast, 3000) is pending
    flight,    \* requests awaiting their continuation, in issue order
    clock,     \* Date.now()
    db,        \* rows of the "prompts" table behind /api/prompts
    serial,    \* the last id the table has issued
    plog,      \* history, parallel to prompts: likes and liked_by_user when
               \* the entity entered the store, and the toggles since
    rendered   \* prompts (and its history) as the last render saw it: the
               \* value a handler's closure reads as "prompts"

vars == <<user, prompts, toasts, timers, flight, clock, db, serial, plog, rendered>>

----------------------------------------------------------------------------
(* Bounds of the model *)

MaxPrompts == 3       \* create is not taken beyond this store length
MaxToasts == 3        \* queue length beyond which QueueSpec appends no more
MaxNotes == 1         \* queue length beyond which Spec and LibSpec append no more
MaxTimers == 3        \* expiry timers pending at once
MaxFlight == 1        \* loads of SocialPromptApp outstanding at once
MaxRequests == 2      \* requests of PromptLibrary outstanding at once
MaxRows == 3          \* ids the table issues
MaxComments == 1      \* comments in the store
MaxTicks == 1         \* clock ticks after the first instant

Epoch == 10           \* the first instant; above every server-issued id
ClockVals == Epoch .. (Epoch + MaxTicks)

NoUser == "null"
Users == {"u1", "u2"}

----------------------------------------------------------------------------
(* Text: a string is a sequence of characters, so that trim() is computed *)

IsSpace(c) == c = " "

RECURSIVE TrimStart(_)
TrimStart(s) ==
    IF s = <<>> THEN s
    ELSE IF IsSpace(Head(s)) THEN TrimStart(Tail(s)) ELSE s

RECURSIVE TrimEnd(_)
TrimEnd(s) ==
    IF s = <<>> THEN s
    ELSE IF IsSpace(s[Len(s)]) THEN TrimEnd(SubSeq(s, 1, Len(s) - 1)) ELSE s

Trim(s) == TrimEnd(TrimStart(s))

\* !s.trim() : the empty string is falsy
Blank(s) == Trim(s) = <<>>

\* what the create form may hold when it is submitted
Forms ==
    { [title |-> <<"A">>, content |-> <<"b">>, category |-> <<"C">>],
      [title |-> <<" ">>, content |-> <<"b">>, category |-> <<"C">>] }

\* what a comment input may hold when it is submitted
CommentTexts == { <<"o", "k">>, <<" ", " ">> }

----------------------------------------------------------------------------
(* Rows the table holds for the social feed.  A row may lack the social    *)
(* columns: POST inserts title, content and category only.                 *)

RowA == [id |-> 1, title |-> <<"A">>, content |-> <<"b">>,
         category |-> <<"C">>, created_at |-> 2]
RowB == [id |-> 2, title |-> <<"b">>, content |-> <<"a">>,
         category |-> <<>>, created_at |-> 1,
         likes |-> 3, author_id |-> "u1", comments |-> <<>>]

SocialRows == {RowA, RowB}

\* Rows the table holds for the library: two of them created at one instant
RowC == [id |-> 2, title |-> <<"c">>, content |-> <<"d">>,
         category |-> <<"D">>, created_at |-> 2]

LibRows == {RowA, RowC}

\* every id a handler may be called with: server ids, client ids, a missing one
IdArgs == {0, 1, 2} \cup ClockVals

----------------------------------------------------------------------------
(* Notification queue *)

Toast(id, message, type) ==
    [id |-> id, message |-> message, type |-> type, shown |-> FALSE]

\* setToasts((prev) => [...prev, { id, message, type }]) with id = Date.now()
addToast(q, now, message, type) == Append(q, Toast(now, message, type))

\* a removal by index that does not test the index: splice(findIndex(...), 1)
\* takes the last entry when no entry has the id
removeToastSplice(q, id) ==
    IF \E i \in DOMAIN q : q[i].id = id
    THEN LET i == CHOOSE i \in DOMAIN q :
                     q[i].id = id /\ \A j \in 1 .. (i - 1) : q[j].id # id
         IN SubSeq(q, 1, i - 1) \o SubSeq(q, i + 1, Len(q))
    ELSE SubSeq(q, 1, Len(q) - 1)

\* prev.filter((t) => t.id !== id)
removeToast(q, id) == SelectSeq(q, LAMBDA t : t.id # id)

\* an entrance transition whose end starts no timer
AnimationEndNoTimer(i) ==
    /\ i \in 1 .. Len(toasts)
    /\ ~toasts[i].shown
    /\ toasts' = [toasts EXCEPT ![i].shown = TRUE]
    /\ UNCHANGED <<user, prompts, timers, flight, clock, db, serial, plog, rendered>>

\* onAnimationEnd={() => setTimeout(() => removeToast(toast.id), 3000)}
AnimationEnd(i) ==
    /\ i \in 1 .. Len(toasts)
    /\ ~toasts[i].shown
    /\ toasts' = [toasts EXCEPT ![i].shown = TRUE]
    /\ timers' = timers (+) SetToBag({toasts[i].id})
    /\ UNCHANGED <<user, prompts, flight, clock, db, serial, plog, rendered>>

\* the timeout's callback: removeToast(toast.id), whatever the queue holds by then
TimerFire(id) ==
    /\ BagIn(id, timers)
    /\ timers' = timers (-) SetToBag({id})
    /\ toasts' = removeToast(toasts, id)
    /\ UNCHANGED <<user, prompts, flight, clock, db, serial, plog, rendered>>

\* Date.now() advances
Tick ==
    /\ clock < Epoch + MaxTicks
    /\ clock' = clock + 1
    /\ UNCHANGED <<user, prompts, toasts, timers, flight, db, serial, plog, rendered>>

----------------------------------------------------------------------------
(* Sequences of entities *)

\* the positions left by splice(findIndex(...), 1) without a test of the
\* index: it takes the last entity when no entity has the id
PositionsSpliced(ps, id, i) ==
    LET hit == { k \in DOMAIN ps : ps[k].id = id }
        drop == IF hit = {} THEN Len(ps)
                ELSE CHOOSE k \in hit : \A h \in hit : k <= h
    IN SelectSeq([k \in DOMAIN ps |-> k], LAMBDA k : k >= i /\ k # drop)

\* the positions, from i on, of the entities of ps whose id is not id, in order
RECURSIVE PositionsKept(_, _, _)
PositionsKept(ps, id, i) ==
    IF i > Len(ps) THEN <<>>
    ELSE (IF ps[i].id # id THEN <<i>> ELSE <<>>) \o PositionsKept(ps, id, i + 1)

\* an insertion that puts an entity in front of those of equal created_at:
\* the sort it gives is newest first but turns equal entities around
RECURSIVE InsertBeforeEqual(_, _)
InsertBeforeEqual(sorted, x) ==
    IF sorted = <<>> THEN <<x>>
    ELSE IF Head(sorted).created_at > x.created_at
         THEN <<Head(sorted)>> \o InsertBeforeEqual(Tail(sorted), x)
         ELSE <<x>> \o sorted

\* Array.prototype.sort with (a, b) => Date(b.created_at) - Date(a.created_at):
\* newest first, and stable, so equal created_at keep their arrival order
RECURSIVE InsertNewestFirst(_, _)
InsertNewestFirst(sorted, x) ==
    IF sorted = <<>> THEN <<x>>
    ELSE IF Head(sorted).created_at >= x.created_at
         THEN <<Head(sorted)>> \o InsertNewestFirst(Tail(sorted), x)
         ELSE <<x>> \o sorted

RECURSIVE SortNewestFirst(_)
SortNewestFirst(s) ==
    IF s = <<>> THEN <<>>
    ELSE InsertNewestFirst(SortNewestFirst(SubSeq(s, 1, Len(s) - 1)), s[Len(s)])

\* GET /api/prompts: select * order by created_at descending; rows of equal
\* created_at come in any order
Listings(rows) ==
    { s \in [1 .. Cardinality(rows) -> rows] :
        /\ \A i, j \in DOMAIN s : i # j => s[i] # s[j]
        /\ \A i, j \in DOMAIN s : i < j => s[i].created_at >= s[j].created_at }

Field(r, f, default) == IF f \in DOMAIN r THEN r[f] ELSE default

----------------------------------------------------------------------------
(* SocialPromptApp (src/app/page.tsx) *)

\* data.map((p) => ({ ...p, likes: p.likes || 0, liked_by_user: false, ... }))
socialData(p) ==
    [id |-> p.id, title |-> p.title, content |-> p.content,
     category |-> p.category, created_at |-> p.created_at,
     likes |-> Field(p, "likes", 0),
     liked_by_user |-> FALSE,
     comments |-> Field(p, "comments", <<>>),
     author_id |-> Field(p, "author_id", "other_user")]

\* the catch branch of loadPrompts; u is the user the callback closed over
mockData(u, now) ==
    << [id |-> 1, author_id |-> "other_user", title |-> <<"M">>,
        content |-> <<"H">>, category |-> <<"A">>, created_at |-> now,
        likes |-> 45, liked_by_user |-> FALSE, comments |-> <<>>],
       [id |-> 2, author_id |-> (IF u = NoUser THEN "demo_id" ELSE u),
        title |-> <<"P">>, content |-> <<"A">>, category |-> <<"C">>,
        created_at |-> now,
        likes |-> 12, liked_by_user |-> TRUE, comments |-> <<>>] >>

\* the history of entities that enter the store
Fresh(ps) ==
    [i \in DOMAIN ps |->
        [likes0 |-> ps[i].likes, liked0 |-> ps[i].liked_by_user, n |-> 0]]

\* the toggles so far: none (0), an odd number (1), an even number (2)
Counted(n) == IF n = 1 THEN 2 ELSE 1

Without(s, i) == SubSeq(s, 1, i - 1) \o SubSeq(s, i + 1, Len(s))

\* the value of the state with its history, as a render sees it
View(ps, lg) == [prompts |-> ps, plog |-> lg]

\* by: the step that started the load (history)
LoadRequest(u, by) == [kind |-> "load", user |-> u, by |-> by]

\* useEffect(() => { loadPrompts(); }, [loadPrompts]) with loadPrompts
\* rebuilt on [user]: every new user value starts a load that closes over it
StartLoad(u, by) == flight' = Append(flight, LoadRequest(u, by))

\* onAuthStateChange / getSession: setUser(session.user).  The handlers see
\* the new user from the render of this update on, and that render shows
\* every update made before it
Login(u) ==
    /\ u \in Users
    /\ user' = u
    /\ StartLoad(u, "login")
    /\ rendered' = View(prompts, plog)
    /\ UNCHANGED <<prompts, toasts, timers, clock, db, serial, plog>>

\* handleLogout: signOut(); setUser(null); addToast("Logged out successfully")
handleLogout ==
    /\ user' = NoUser
    /\ toasts' = addToast(toasts, clock, "Logged out successfully", "success")
    /\ IF user # NoUser THEN StartLoad(NoUser, "logout") ELSE flight' = flight
    /\ UNCHANGED <<prompts, timers, clock, db, serial, plog, rendered>>

\* React renders the state that an awaited continuation has set.  setPrompts
\* after an await is batched: the render is scheduled, and it runs either
\* before any other event (the continuation's step renders, rendered' is
\* the new state) or after one, as this step; until it has run the handlers
\* keep the closure of the render before
Render ==
    /\ rendered # View(prompts, plog)
    /\ rendered' = View(prompts, plog)
    /\ UNCHANGED <<user, prompts, toasts, timers, flight, clock, db, serial, plog>>

\* loadPrompts, try branch: the response is a list
LoadOk(i) ==
    /\ i \in 1 .. Len(flight)
    /\ flight[i].kind = "load"
    /\ \E data \in Listings(db) :
          LET socialized == [k \in DOMAIN data |-> socialData(data[k])]
          IN /\ prompts' = SortNewestFirst(socialized)
             /\ plog' = Fresh(prompts')
    /\ rendered' \in {rendered, View(prompts', plog')}
    /\ flight' = Without(flight, i)
    /\ UNCHANGED <<user, toasts, timers, clock, db, serial>>

\* loadPrompts, catch branch: fetch rejects, or the response is no list
\* (an error object: data.map throws)
LoadFail(i) ==
    /\ i \in 1 .. Len(flight)
    /\ flight[i].kind = "load"
    /\ prompts' = mockData(flight[i].user, clock)
    /\ plog' = Fresh(prompts')
    /\ rendered' \in {rendered, View(prompts', plog')}
    /\ flight' = Without(flight, i)
    /\ UNCHANGED <<user, toasts, timers, clock, db, serial>>

newPrompt(form, u, now) ==
    [id |-> now, author_id |-> u, title |-> form.title,
     content |-> form.content, category |-> form.category,
     created_at |-> now, likes |-> 0, liked_by_user |-> FALSE,
     comments |-> <<>>]

\* setPrompts([newPrompt, ...prompts]): the new value is built from the
\* prompts of the handler's closure, not from the state being updated
handleSubmit(form) ==
    IF user = NoUser
       THEN /\ toasts' = addToast(toasts, clock, "Please login to share prompts", "error")
            /\ UNCHANGED <<user, prompts, timers, flight, clock, db, serial, plog, rendered>>
       ELSE IF Blank(form.title) \/ Blank(form.content)
       THEN UNCHANGED <<user, prompts, toasts, timers, flight, clock, db, serial, plog, rendered>>
       ELSE /\ prompts' = <<newPrompt(form, user, clock)>> \o rendered.prompts
            /\ plog' = Fresh(<<newPrompt(form, user, clock)>>) \o rendered.plog
            /\ rendered' = View(prompts', plog')
            /\ toasts' = addToast(toasts, clock, "Prompt Shared!", "success")
            /\ UNCHANGED <<user, timers, flight, clock, db, serial>>

\* {user && p.author_id === user.id && <button onClick={() => handleDelete(p.id)}>}
DeleteButtonShown(p) == user # NoUser /\ p.author_id = user

\* prev.filter((p) => p.id !== id) on a state and its history
Deleted(v, id) ==
    LET keep == PositionsKept(v.prompts, id, 1)
    IN View([k \in DOMAIN keep |-> v.prompts[keep[k]]],
            [k \in DOMAIN keep |-> v.plog[keep[k]]])

\* handleDelete once confirm() is accepted.  The update is a function of the
\* state: it acts on the state, and the render that follows the event acts
\* with it on what was rendered.
handleDelete(id) ==
    /\ prompts' = Deleted(View(prompts, plog), id).prompts
    /\ plog' = Deleted(View(prompts, plog), id).plog
    /\ rendered' = Deleted(rendered, id)
    /\ toasts' = addToast(toasts, clock, "Prompt deleted", "success")
    /\ UNCHANGED <<user, timers, flight, clock, db, serial>>

\* a toggle that counts every click as a like
toggledUp(p) ==
    [p EXCEPT !.liked_by_user = ~p.liked_by_user, !.likes = p.likes + 1]

\* a toggle with the two branches of the ternary exchanged
toggledSwapped(p) ==
    LET isLiked == ~p.liked_by_user
    IN [p EXCEPT !.liked_by_user = isLiked,
                 !.likes = IF isLiked THEN p.likes - 1 ELSE p.likes + 1]

toggled(p) ==
    LET isLiked == ~p.liked_by_user
    IN [p EXCEPT !.liked_by_user = isLiked,
                 !.likes = IF isLiked THEN p.likes + 1 ELSE p.likes - 1]

Liked(ps, id) ==
    [k \in DOMAIN ps |-> IF ps[k].id = id THEN toggled(ps[k]) ELSE ps[k]]

Logged(v, id) ==
    [k \in DOMAIN v.plog |->
        IF v.prompts[k].id = id THEN [v.plog[k] EXCEPT !.n = Counted(@)]
        ELSE v.plog[k]]

\* handleLike with the return of its gate lost: it warns and toggles anyway
handleLikeNoReturn(id) ==
    /\ prompts' = Liked(prompts, id)
    /\ plog' = Logged(View(prompts, plog), id)
    /\ rendered' = View(Liked(rendered.prompts, id), Logged(rendered, id))
    /\ IF user = NoUser
       THEN toasts' = addToast(toasts, clock, "Login to like posts", "error")
       ELSE toasts' = toasts
    /\ UNCHANGED <<user, timers, flight, clock, db, serial>>

handleLike(id) ==
    IF user = NoUser
       THEN /\ toasts' = addToast(toasts, clock, "Login to like posts", "error")
            /\ UNCHANGED <<user, prompts, timers, flight, clock, db, serial, plog, rendered>>
       ELSE /\ prompts' = Liked(prompts, id)
            /\ plog' = Logged(View(prompts, plog), id)
            /\ rendered' = View(Liked(rendered.prompts, id), Logged(rendered, id))
            /\ UNCHANGED <<user, toasts, timers, flight, clock, db, serial>>

newComment(text, now) == [id |-> now, text |-> text, created_at |-> now]

\* prev.map(p => p.id === id ? { ...p, comments: [...p.comments, c] } : p)
Commented(ps, id, c) ==
    [k \in DOMAIN ps |->
        IF ps[k].id = id THEN [ps[k] EXCEPT !.comments = Append(@, c)]
        ELSE ps[k]]

handleCommentSubmit(id, text) ==
    IF user = NoUser
       THEN /\ toasts' = addToast(toasts, clock, "Login to comment", "error")
            /\ UNCHANGED <<user, prompts, timers, flight, clock, db, serial, plog, rendered>>
       ELSE IF Blank(text)
       THEN UNCHANGED <<user, prompts, toasts, timers, flight, clock, db, serial, plog, rendered>>
       ELSE /\ prompts' = Commented(prompts, id, newComment(text, clock))
            /\ rendered' = [rendered EXCEPT
                  !.prompts = Commented(@, id, newComment(text, clock))]
            /\ UNCHANGED <<user, toasts, timers, flight, clock, db, serial, plog>>

\* handleCopy: clipboard.writeText(text); addToast("Copied to clipboard")
handleCopy ==
    /\ toasts' = addToast(toasts, clock, "Copied to clipboard", "success")
    /\ UNCHANGED <<user, prompts, timers, flight, clock, db, serial, plog, rendered>>

\* the letters that have two cases, as <<upper, lower>>
CasePairs ==
    { <<"A", "a">>, <<"B", "b">>, <<"C", "c">>, <<"D", "d">>,
      <<"H", "h">>, <<"M", "m">>, <<"P", "p">> }

\* String.prototype.toLowerCase
toLowerCase(s) ==
    [k \in DOMAIN s |->
        IF \E pr \in CasePairs : pr[1] = s[k]
        THEN (CHOOSE pr \in CasePairs : pr[1] = s[k])[2]
        ELSE s[k]]

\* String.prototype.includes
includes(hay, needle) ==
    \E k \in 0 .. (Len(hay) - Len(needle)) :
       SubSeq(hay, k + 1, k + Len(needle)) = needle

\* the tab that stands for every category
AllTab == <<"A", "l", "l">>

\* what the search box and the category tabs may hold
Searches == { <<>>, <<"a">>, <<"A", "B">>, <<"h">> }
Tabs == { AllTab, <<"C">>, <<"A">> }

\* the filter with the search text taken as typed
filteredAsTyped(ps, search, activeTab) ==
    SelectSeq(ps, LAMBDA p :
        /\ includes(toLowerCase(p.title \o p.content), search)
        /\ (activeTab = AllTab \/ p.category = activeTab))

\* const filtered = prompts.filter(p => matchSearch && matchCat)
filtered(ps, search, activeTab) ==
    SelectSeq(ps, LAMBDA p :
        /\ includes(toLowerCase(p.title \o p.content), toLowerCase(search))
        /\ (activeTab = AllTab \/ p.category = activeTab))

\* the component mounts: empty state, and the effect has started the first load
Init ==
    /\ user = NoUser
    /\ prompts = <<>>
    /\ toasts = <<>>
    /\ timers = EmptyBag
    /\ flight = <<LoadRequest(NoUser, "mount")>>
    /\ clock = Epoch
    /\ db = SocialRows
    /\ serial = Cardinality(SocialRows)
    /\ plog = <<>>
    /\ rendered = View(<<>>, <<>>)

----------------------------------------------------------------------------
(* What keeps the model finite: no handler is taken when it would grow the *)
(* queue, the store or the set of outstanding requests past its bound.     *)

Room(n) == Len(toasts) < n
StoreRoom == Len(prompts) < MaxPrompts /\ Len(rendered.prompts) < MaxPrompts
FlightRoom == Len(flight) < MaxFlight
TimerRoom == BagCardinality(timers) < MaxTimers

RECURSIVE CommentCount(_)
CommentCount(ps) ==
    IF ps = <<>> THEN 0 ELSE Len(Head(ps).comments) + CommentCount(Tail(ps))

CommentRoom == CommentCount(prompts) < MaxComments

\* the last render has seen the state as it is
Settled == rendered = View(prompts, plog)

\* In Spec every load is rendered before the next event; LagSpec has the
\* loads whose render comes after an event.
Next ==
    \/ Tick
    \/ \E u \in Users : FlightRoom /\ Login(u)
    \/ Room(MaxNotes) /\ FlightRoom /\ handleLogout
    \/ \E i \in 1 .. MaxFlight : LoadOk(i) /\ Settled'
    \/ \E i \in 1 .. MaxFlight : LoadFail(i) /\ Settled'
    \/ \E f \in Forms : Room(MaxNotes) /\ StoreRoom /\ handleSubmit(f)
    \/ \E id \in IdArgs : Room(MaxNotes) /\ handleDelete(id)
    \/ \E id \in IdArgs : (user = NoUser => Room(MaxNotes)) /\ handleLike(id)
    \/ \E id \in IdArgs, text \in CommentTexts :
          /\ user = NoUser => Room(MaxNotes)
          /\ CommentRoom
          /\ handleCommentSubmit(id, text)
    \/ \E i \in 1 .. MaxNotes : TimerRoom /\ AnimationEnd(i)
    \/ \E id \in ClockVals : TimerFire(id)

Spec == Init /\ [][Next]_vars

\* The loads and the events around them, a load's render coming at once or
\* after an event
LagNext ==
    \/ Render
    \/ \E u \in Users : FlightRoom /\ Login(u)
    \/ \E i \in 1 .. MaxFlight : LoadOk(i)
    \/ \E i \in 1 .. MaxFlight : LoadFail(i)
    \/ \E f \in Forms : Room(MaxToasts) /\ StoreRoom /\ handleSubmit(f)
    \/ \E id \in IdArgs : user # NoUser /\ handleLike(id)

LagSpec == Init /\ [][LagNext]_vars

----------------------------------------------------------------------------
(* PromptLibrary (src/unnamed/part_000) and the API routes it calls.       *)
(* A request is sent, then answered by the route, then its continuation    *)
(* runs in the component: three steps, so that what the route read and     *)
(* what the component holds may differ by the time the answer arrives.     *)

\* resp: "sent" until the route has answered; then "ok", "http500" (the route
\* answers { error } with status 500) or "rejected" (fetch throws)
Request(kind, arg) == [kind |-> kind, arg |-> arg, resp |-> "sent", data |-> <<>>]

Answered(r, resp, data) == [r EXCEPT !.resp = resp, !.data = data]

\* GET in src/app/api/prompts/route.ts
ServeLoad(i) ==
    /\ flight[i].kind = "load"
    /\ \/ \E data \in Listings(db) :
             flight' = [flight EXCEPT ![i] = Answered(@, "ok", data)]
       \/ flight' = [flight EXCEPT ![i] = Answered(@, "http500", <<>>)]
       \/ flight' = [flight EXCEPT ![i] = Answered(@, "rejected", <<>>)]
    /\ UNCHANGED <<db, serial>>

\* the row insert([{ title, content, category }]) adds: the table issues the
\* id and stamps created_at
Inserted(form) ==
    [id |-> serial + 1, title |-> form.title, content |-> form.content,
     category |-> form.category, created_at |-> clock]

\* POST in src/app/api/prompts/route.ts; a rejected fetch may or may not have
\* reached the route
ServePost(i) ==
    /\ flight[i].kind = "post"
    /\ \/ /\ serial < MaxRows
          /\ db' = db \cup {Inserted(flight[i].arg)}
          /\ serial' = serial + 1
          /\ \E resp \in {"ok", "rejected"} :
                flight' = [flight EXCEPT ![i] = Answered(@, resp, <<>>)]
       \/ /\ \E resp \in {"http500", "rejected"} :
                flight' = [flight EXCEPT ![i] = Answered(@, resp, <<>>)]
          /\ UNCHANGED <<db, serial>>

\* DELETE in src/app/api/prompts/[id]/route.ts
ServeDelete(i) ==
    /\ flight[i].kind = "delete"
    /\ \/ /\ db' = { r \in db : r.id # flight[i].arg }
          /\ \E resp \in {"ok", "rejected"} :
                flight' = [flight EXCEPT ![i] = Answered(@, resp, @.data)]
       \/ /\ \E resp \in {"http500", "rejected"} :
                flight' = [flight EXCEPT ![i] = Answered(@, resp, @.data)]
          /\ db' = db
    /\ UNCHANGED serial

Serve(i) ==
    /\ i \in DOMAIN flight
    /\ flight[i].resp = "sent"
    /\ ServeLoad(i) \/ ServePost(i) \/ ServeDelete(i)
    /\ UNCHANGED <<user, prompts, toasts, timers, clock, plog, rendered>>

\* loadPrompts, try branch: setPrompts(data.sort(...))
loadPromptsOk(i) ==
    /\ i \in DOMAIN flight
    /\ flight[i].kind = "load" /\ flight[i].resp = "ok"
    /\ prompts' = SortNewestFirst(flight[i].data)
    /\ rendered' = View(prompts', plog)
    /\ flight' = Without(flight, i)
    /\ UNCHANGED <<user, toasts, timers, clock, db, serial, plog>>

\* loadPrompts, catch branch: fetch threw, or the answer is the error object
\* and data.sort is no function
loadPromptsFail(i) ==
    /\ i \in DOMAIN flight
    /\ flight[i].kind = "load" /\ flight[i].resp \in {"http500", "rejected"}
    /\ toasts' = addToast(toasts, clock, "Failed to load prompts", "error")
    /\ flight' = Without(flight, i)
    /\ UNCHANGED <<user, prompts, timers, clock, db, serial, plog, rendered>>

\* handleSubmit up to its await fetch(POST)
handleSubmitLib(form) ==
    IF Blank(form.title) \/ Blank(form.content)
    THEN /\ toasts' = addToast(toasts, clock, "Title and content are required", "error")
         /\ UNCHANGED <<user, prompts, timers, flight, clock, db, serial, plog, rendered>>
    ELSE /\ flight' = Append(flight, Request("post", form))
         /\ UNCHANGED <<user, prompts, toasts, timers, clock, db, serial, plog, rendered>>

\* handleSubmit after the await: fetch resolved, whatever the status
\* (the toast, then await loadPrompts(true)), or fetch threw (the catch)
SubmitDone(i) ==
    /\ i \in DOMAIN flight
    /\ flight[i].kind = "post" /\ flight[i].resp # "sent"
    /\ IF flight[i].resp = "rejected"
       THEN /\ toasts' = addToast(toasts, clock, "Failed to save prompt", "error")
            /\ flight' = Without(flight, i)
       ELSE /\ toasts' = addToast(toasts, clock, "Prompt saved to library", "success")
            /\ flight' = Append(Without(flight, i), Request("load", 0))
    /\ UNCHANGED <<user, prompts, timers, clock, db, serial, plog, rendered>>

\* handleDelete once confirm() is accepted, up to its await fetch(DELETE):
\* the optimistic update (the request's data: what it took out, as history)
handleDeleteLib(id) ==
    /\ prompts' = SelectSeq(prompts, LAMBDA p : p.id # id)
    /\ flight' = Append(flight, [Request("delete", id) EXCEPT
                                   !.data = SelectSeq(prompts, LAMBDA p : p.id = id)])
    /\ rendered' = View(prompts', plog)
    /\ UNCHANGED <<user, toasts, timers, clock, db, serial, plog>>

\* handleDelete after the await: fetch resolved, whatever the status, or
\* fetch threw (the catch: the toast, then loadPrompts(true))
DeleteDone(i) ==
    /\ i \in DOMAIN flight
    /\ flight[i].kind = "delete" /\ flight[i].resp # "sent"
    /\ IF flight[i].resp = "rejected"
       THEN /\ toasts' = addToast(toasts, clock, "Could not delete prompt", "error")
            /\ flight' = Append(Without(flight, i), Request("load", 0))
       ELSE /\ toasts' = addToast(toasts, clock, "Prompt deleted", "success")
            /\ flight' = Without(flight, i)
    /\ UNCHANGED <<user, prompts, timers, clock, db, serial, plog, rendered>>

\* the component mounts: empty state, and the effect has started the first load
LibInit ==
    /\ user = NoUser
    /\ prompts = <<>>
    /\ toasts = <<>>
    /\ timers = EmptyBag
    /\ flight = <<Request("load", 0)>>
    /\ clock = Epoch
    /\ db = LibRows
    /\ serial = Cardinality(LibRows)
    /\ plog = <<>>
    /\ rendered = View(<<>>, <<>>)

RequestRoom == Len(flight) < MaxRequests

LibNext ==
    \/ Tick
    \/ \E i \in 1 .. MaxRequests : Serve(i)
    \/ \E i \in 1 .. MaxRequests : loadPromptsOk(i)
    \/ \E i \in 1 .. MaxRequests : Room(MaxNotes) /\ loadPromptsFail(i)
    \/ \E f \in Forms : Room(MaxNotes) /\ RequestRoom /\ handleSubmitLib(f)
    \/ \E i \in 1 .. MaxRequests : Room(MaxNotes) /\ SubmitDone(i)
    \/ \E id \in 0 .. MaxRows : RequestRoom /\ handleDeleteLib(id)
    \/ \E i \in 1 .. MaxRequests : Room(MaxNotes) /\ DeleteDone(i)
    \/ \E i \in 1 .. MaxNotes : TimerRoom /\ AnimationEnd(i)
    \/ \E id \in ClockVals : TimerFire(id)

LibSpec == LibInit /\ [][LibNext]_vars

----------------------------------------------------------------------------
(* Properties of SocialPromptApp, checked under Spec *)

ErrorAppended ==
    /\ Len(toasts') = Len(toasts) + 1
    /\ SubSeq(toasts', 1, Len(toasts)) = toasts
    /\ toasts'[Len(toasts')].type = "error"

HasId(ps, id) == \E k \in DOMAIN ps : ps[k].id = id

\* C1: create, toggleLike and addComment issued while nobody is signed in
\* leave the prompt collection as it was and append exactly one error
\* notification to the queue.
GateRejects ==
    [][ user = NoUser =>
          \A id \in IdArgs, f \in Forms, text \in CommentTexts :
             (handleSubmit(f) \/ handleLike(id) \/ handleCommentSubmit(id, text))
                => (prompts' = prompts /\ ErrorAppended) ]_vars

\* C1 happens: the store holds an entity, nobody is signed in, and the like
\* gate has put its error notification in the queue
GateRejectsSeen ==
    /\ user = NoUser
    /\ prompts # <<>>
    /\ \E i \in DOMAIN toasts :
          toasts[i].message = "Login to like posts" /\ toasts[i].type = "error"

\* the current identity is the author of no entity that carries this id
NotAuthorOf(id) ==
    /\ HasId(prompts, id)
    /\ \A k \in DOMAIN prompts : prompts[k].id = id => prompts[k].author_id # user

\* C2: delete(id) by an identity that is not the author of the target is
\* rejected (store unchanged, error notification appended); an entity is
\* removed only when its author_id is the current identity's id.
DeleteRequiresAuthor ==
    [][ \A id \in IdArgs :
          (NotAuthorOf(id) /\ handleDelete(id))
             => (prompts' = prompts /\ ErrorAppended) ]_vars

\* C4: each toggleLike flips liked_by_user and moves likes by exactly one in
\* the same step, up when becoming liked and down when becoming unliked; so
\* since the entity entered the store, liked_by_user differs from its first
\* value exactly after an odd number of toggles, and after an even number
\* likes and liked_by_user are the first values again.
ToggleParity ==
    /\ [][ \A id \in IdArgs : (user # NoUser /\ handleLike(id)) =>
             /\ Len(prompts') = Len(prompts)
             /\ \A k \in DOMAIN prompts :
                  IF prompts[k].id = id
                  THEN /\ prompts'[k].liked_by_user = ~prompts[k].liked_by_user
                       /\ prompts'[k].likes =
                            prompts[k].likes
                              + (IF prompts'[k].liked_by_user THEN 1 ELSE -1)
                  ELSE prompts'[k] = prompts[k] ]_vars
    /\ [](\A k \in DOMAIN prompts :
             LET odd == plog[k].n = 1
             IN /\ prompts[k].liked_by_user = (plog[k].liked0 # odd)
                /\ prompts[k].likes =
                     plog[k].likes0
                       + (IF ~odd THEN 0 ELSE IF plog[k].liked0 THEN -1 ELSE 1))

\* C4 happens: an entity has been toggled twice and is as it entered
ToggledTwice ==
    \E k \in DOMAIN prompts :
       /\ plog[k].n = 2
       /\ prompts[k].likes = plog[k].likes0
       /\ prompts[k].liked_by_user = plog[k].liked0

\* C5: every entity in the store has likes >= 0.
LikesNonNegative == \A k \in DOMAIN prompts : prompts[k].likes >= 0

\* C5 happens: an entity that entered with no likes has been liked and
\* unliked again, and an entity that entered liked has been unliked
UnlikedAtZero ==
    /\ \E k \in DOMAIN prompts :
          plog[k].likes0 = 0 /\ plog[k].n = 2 /\ prompts[k].likes = 0
    /\ \E k \in DOMAIN prompts :
          plog[k].liked0 /\ plog[k].n = 1 /\ ~prompts[k].liked_by_user

\* a client-generated provisional id: Date.now().toString()
Provisional(id) == id \in ClockVals

LogoutKeepsLocal ==
    [][ \A i \in DOMAIN flight :
          (flight[i].by = "logout" /\ (LoadOk(i) \/ LoadFail(i)))
             => \A k \in DOMAIN prompts :
                   Provisional(prompts[k].id)
                      => \E j \in DOMAIN prompts' : prompts'[j] = prompts[k] ]_vars

\* C13: whenever a load fails, an error notification is appended, whether
\* or not the mock data take the place of the collection.
LoadFailureSurfaced ==
    [][ \A i \in DOMAIN flight : LoadFail(i) => ErrorAppended ]_vars

\* C15: a delete takes out of the store the entities that carry the id and
\* no other: the rest stay as they were and in their order; when no entity
\* carries the id the store stays as it is, and a second delete of the id
\* would change nothing more.
DeleteFrame ==
    [][ \A id \in IdArgs : handleDelete(id) =>
          /\ prompts' = SelectSeq(prompts, LAMBDA p : p.id # id)
          /\ (~HasId(prompts, id) => prompts' = prompts)
          /\ SelectSeq(prompts', LAMBDA p : p.id # id) = prompts' ]_vars

\* C15 happens: of the two entities a load brings, the first has been
\* deleted and the second is still in the store
DeleteFrameSeen ==
    /\ HasId(prompts, 2) /\ ~HasId(prompts, 1)
    /\ \E i \in DOMAIN toasts : toasts[i].message = "Prompt deleted"

SameLetter(a, b) == a = b \/ <<a, b>> \in CasePairs \/ <<b, a>> \in CasePairs

\* text holds s somewhere, letter for letter, whatever the case
Contains(text, s) ==
    \E k \in 0 .. (Len(text) - Len(s)) :
       \A j \in 1 .. Len(s) : SameLetter(text[k + j], s[j])

Wanted(p, search, tab) ==
    /\ Contains(p.title \o p.content, search)
    /\ (tab = AllTab \/ p.category = tab)

\* C14: for every search text and category tab, filtered is the entities of
\* the store whose title followed by content holds the search text whatever
\* the case, and whose category is the tab unless the tab is "All": each of
\* them once, in the store's order; with an empty search and "All" it is
\* the store.
FilterExact ==
    /\ \A search \in Searches, tab \in Tabs :
          LET f == filtered(prompts, search, tab)
              keep == { k \in DOMAIN prompts : Wanted(prompts[k], search, tab) }
          IN /\ Len(f) = Cardinality(keep)
             /\ \E at \in [DOMAIN f -> keep] :
                   /\ \A a, b \in DOMAIN f : a < b => at[a] < at[b]
                   /\ \A a \in DOMAIN f : f[a] = prompts[at[a]]
    /\ filtered(prompts, <<>>, AllTab) = prompts

\* C14 happens: the store holds several entities, a search typed in another
\* case and matching across title and content selects some and not all of
\* them, and so does a category tab
FilterExactSeen ==
    /\ Len(prompts) >= 2
    /\ filtered(prompts, <<"A", "B">>, AllTab) \notin {<<>>, prompts}
    /\ filtered(prompts, <<>>, <<"C">>) \notin {<<>>, prompts}

\* C16: a comment submitted by a signed-in user with text that is blank
\* once trimmed, or for an id that no entity carries, leaves the store as it
\* is; with other text it appends the one new comment at the end of the
\* comments of the one target entity and changes nothing else in the store.
CommentAppendsOne ==
    [][ \A id \in IdArgs, text \in CommentTexts :
          (user # NoUser /\ handleCommentSubmit(id, text)) =>
             IF Blank(text) \/ ~HasId(prompts, id)
             THEN prompts' = prompts
             ELSE \E k \in DOMAIN prompts :
                     /\ prompts[k].id = id
                     /\ prompts' = [prompts EXCEPT
                           ![k].comments = Append(@, newComment(text, clock))]
      ]_vars

\* C17: no two entities in the store have the same id.
PromptIdsUnique ==
    \A i, j \in DOMAIN prompts : i # j => prompts[i].id # prompts[j].id

\* C18: a create by a signed-in user with title and content that are not
\* blank puts one new entity, with no likes, not liked and without comments,
\* in front of the store, and behind it the store is as it was just before
\* the create, whatever load or mutation had completed by then.
CreatePrepends ==
    [][ \A f \in Forms :
          ( /\ user # NoUser
            /\ ~Blank(f.title) /\ ~Blank(f.content)
            /\ handleSubmit(f) )
             => /\ prompts' = <<newPrompt(f, user, clock)>> \o prompts
                /\ Head(prompts').likes = 0
                /\ ~Head(prompts').liked_by_user
                /\ Head(prompts').comments = <<>> ]_vars

----------------------------------------------------------------------------
(* The notification queue, checked under QueueSpec: a session in which     *)
(* nobody signs in, so that every handler only reaches the queue or the    *)
(* loaded store, and the queue may grow to MaxToasts.                      *)

QueueNext ==
    \/ Tick
    \/ \E i \in 1 .. MaxFlight : LoadOk(i) /\ Settled'
    \/ \E i \in 1 .. MaxFlight : LoadFail(i) /\ Settled'
    \/ Room(MaxToasts) /\ handleLogout
    \/ Room(MaxToasts) /\ handleCopy
    \/ \E f \in Forms : Room(MaxToasts) /\ handleSubmit(f)
    \/ \E id \in IdArgs : Room(MaxToasts) /\ handleDelete(id)
    \/ \E id \in IdArgs : Room(MaxToasts) /\ handleLike(id)
    \/ \E id \in IdArgs, text \in CommentTexts :
          Room(MaxToasts) /\ handleCommentSubmit(id, text)
    \/ \E i \in 1 .. MaxToasts : TimerRoom /\ AnimationEnd(i)
    \/ \E id \in ClockVals : TimerFire(id)

QueueSpec == Init /\ [][QueueNext]_vars

ToastIds(q) == { q[i].id : i \in DOMAIN q }

\* C8: no two notifications in the queue have the same id, and each append
\* puts the new notification at the end of the queue.
ToastIdsUnique ==
    /\ [](\A i, j \in DOMAIN toasts : i # j => toasts[i].id # toasts[j].id)
    /\ [][ Len(toasts') > Len(toasts) =>
             /\ Len(toasts') = Len(toasts) + 1
             /\ SubSeq(toasts', 1, Len(toasts)) = toasts ]_vars

\* C9: the removal of one notification leaves every other notification in
\* the queue, in the same order: a timer that fires takes at most the one
\* entry it was started for.
RemovalTakesOne ==
    [][ \A id \in ClockVals : TimerFire(id) =>
          \/ toasts' = toasts
          \/ \E i \in DOMAIN toasts : toasts' = Without(toasts, i) ]_vars

\* C10: remove(id) with an id the queue does not hold leaves the queue as it
\* is, also when it is an expiry timer that fires late; and removing twice
\* gives the queue that removing once gives.
RemoveIdempotent ==
    /\ [](\A id \in {0} \cup ClockVals :
             /\ removeToast(removeToast(toasts, id), id) = removeToast(toasts, id)
             /\ id \notin ToastIds(toasts) => removeToast(toasts, id) = toasts)
    /\ [][ \A id \in ClockVals :
             (TimerFire(id) /\ id \notin ToastIds(toasts)) => toasts' = toasts ]_vars

\* C10 happens: a timer is still pending for an id that the queue, not
\* empty, no longer holds
LateTimerPending ==
    /\ toasts # <<>>
    /\ \E id \in ClockVals : BagIn(id, timers) /\ id \notin ToastIds(toasts)

\* The queue with its scheduling: a timeout that is pending does fire.
QueueLive == QueueSpec /\ \A id \in ClockVals : WF_vars(TimerFire(id))

Visible(id) == \E i \in DOMAIN toasts : toasts[i].id = id /\ toasts[i].shown

\* C11: a notification's expiry timer is started only by the end of its
\* entrance transition, one timer for each notification and none at append
\* (an appended notification is not yet visible and the timers are as they
\* were); a visible notification stays visible while it is in the queue and
\* has a timer pending under its id; and once visible it is eventually out
\* of the queue.
ToastLifecycle ==
    /\ [][ /\ (timers' # timers /\ BagCardinality(timers') >= BagCardinality(timers))
                => (\E i \in DOMAIN toasts :
                      /\ ~toasts[i].shown
                      /\ toasts' = [toasts EXCEPT ![i].shown = TRUE]
                      /\ timers' = timers (+) SetToBag({toasts[i].id}))
           /\ (Len(toasts') > Len(toasts))
                => (timers' = timers /\ ~toasts'[Len(toasts')].shown)
           /\ (Len(toasts') = Len(toasts))
                => (\A i \in DOMAIN toasts : toasts[i].shown => toasts'[i].shown)
          ]_vars
    /\ [](\A i \in DOMAIN toasts :
             toasts[i].shown => BagIn(toasts[i].id, timers))
    /\ \A id \in ClockVals : Visible(id) ~> ~Visible(id)

\* C11 happens: one notification is visible with its timer pending while a
\* later one, appended at another instant, is in the queue with no timer yet
ToastLifecycleSeen ==
    \E i, j \in DOMAIN toasts :
       /\ i < j
       /\ toasts[i].shown /\ BagIn(toasts[i].id, timers)
       /\ ~toasts[j].shown /\ ~BagIn(toasts[j].id, timers)

----------------------------------------------------------------------------
(* Properties of PromptLibrary, checked under LibSpec *)

\* C3: whenever the confirmation request of an optimistically applied delete
\* fails, the table still holding the entity that the store has dropped, an
\* error notification is appended and a load() resync is started.
DeleteFailureResyncs ==
    [][ \A i \in DOMAIN flight :
          ( /\ flight[i].kind = "delete"
            /\ flight[i].resp \in {"http500", "rejected"}
            /\ flight[i].data # <<>>
            /\ \E r \in db : r.id = flight[i].arg
            /\ ~HasId(prompts, flight[i].arg)
            /\ DeleteDone(i) )
             => /\ ErrorAppended
                /\ \E j \in DOMAIN flight' : flight'[j].kind = "load" ]_vars

\* the place of entity x in the sequence s
Place(s, x) == CHOOSE k \in DOMAIN s : s[k] = x

\* C12: when a load completes with a list, the store is that list and
\* nothing else: the same entities, newest first by created_at, and those
\* of equal created_at in the order in which the list brought them.
LoadReplaces ==
    [][ \A i \in DOMAIN flight : loadPromptsOk(i) =>
          LET data == flight[i].data
          IN /\ Len(prompts') = Len(data)
             /\ { prompts'[k] : k \in DOMAIN prompts' } = { data[k] : k \in DOMAIN data }
             /\ \A a, b \in DOMAIN prompts' :
                   a < b => prompts'[a].created_at >= prompts'[b].created_at
             /\ \A a, b \in DOMAIN data :
                   (a < b /\ data[a].created_at = data[b].created_at)
                      => Place(prompts', data[a]) < Place(prompts', data[b]) ]_vars

\* C12 happens: the store holds what a load brought after the table had
\* changed, with two entities of equal created_at in the list's order,
\* the one with the greater id first
LoadReplacesSeen ==
    /\ Len(prompts) = 3
    /\ \E a, b \in DOMAIN prompts :
          /\ a < b
          /\ prompts[a].created_at = prompts[b].created_at
          /\ prompts[a].id > prompts[b].id
    /\ \E k \in DOMAIN prompts : prompts[k].id > Cardinality(LibRows)

\* C19: an entity that was in the store when its delete was issued, and
\* whose DELETE the route has completed, is not in the store when the
\* continuation of the delete runs as the last outstanding request, every
\* load that was in flight beside it having completed.
DeletedStaysOut ==
    [][ \A i \in DOMAIN flight :
          ( /\ flight[i].kind = "delete" /\ flight[i].resp = "ok"
            /\ flight[i].data # <<>>
            /\ ~\E r \in db : r.id = flight[i].arg
            /\ Len(flight) = 1
            /\ DeleteDone(i) )
             => ~HasId(prompts', flight[i].arg) ]_vars

============================================================================
